---- MODULE Spec2Model ----
(***************************************************************************)
(* Gateway lifecycle and single-owner controller of backend/server.py.     *)
(*                                                                         *)
(* The control plane is one asyncio process.  A request handler runs       *)
(* without interleaving between two awaits, so every action below is one   *)
(* such segment of a handler (or the moment an awaited database operation  *)
(* takes effect).  The supervised gateway process, the clock and the       *)
(* session store are the environment.                                      *)
(***************************************************************************)
EXTENDS Integers, FiniteSets, Sequences, TLC

\* ------------------------------------------------------------------ bounds
MaxTok == 2       \* tokens generate_token may hand out in one behaviour
MaxInflight == 2  \* requests past require_auth at the same time
MaxDay == 1       \* the digest scheduler is followed over the days 0..MaxDay
MaxHistory == 2   \* digest history records that can be told apart
MaxPolls == 3     \* failed readiness probes that fit into the window max_wait

\* --------------------------------------------------------- program constants
SESSION_EXPIRY_DAYS == 7
MinApiKeyLen == 10

\* ------------------------------------------------------------- value spaces
Users == {"A", "B"}
NoUser == "none"
NoTok == 0                      \* Python None
EmptyTok == -1                  \* the empty string: present in JSON, falsy
NoTime == -1
NoProvider == "none"
NoKey == "none"                 \* apiKey None
ShortKey == "short"             \* an apiKey of fewer than MinApiKeyLen characters
GoodKey == "sk-good-key"
DefaultEmergentKey == "sk-emergent-1234"
WORKSPACE_DIR == "~/clawd"

ValidProviders == {"emergent", "anthropic", "openai"}
\* The (provider, apiKey) pairs start requests carry: the default request and
\* the ones validation turns away.
StartInputs ==
    {<<"emergent", NoKey>>, <<"openai", ShortKey>>, <<"openai", NoKey>>,
     <<"bogus", NoKey>>}

KeyLen(k) == IF k = NoKey THEN 0 ELSE IF k = ShortKey THEN 5 ELSE 11

Email(u) == u                   \* one account per identity: email <-> user_id

Truthy(t) == t # NoTok /\ t # EmptyTok

\* --------------------------------------------------------------- the state
VARIABLES
    up,             \* the control plane process is serving requests
    now,            \* the clock (days); it stands still in the gateway specification
    nextTok,        \* next value secrets.token_hex will return
    supRunning,     \* the supervisor's view of the gateway process
    gateway_state,  \* in-memory GatewayRuntimeState
    durable,        \* db.moltbot_configs {_id: gateway_config}
    instanceOwner,  \* db.instance_config {_id: instance_owner}
    sessions,       \* db.user_sessions, the session row of each identity
    cfg,            \* ~/.clawdbot/clawdbot.json
    envFile,        \* gateway.env, the hand-off to the supervisor wrapper
    start,          \* the in-flight POST /openclaw/start of each client
    stop,           \* the in-flight POST /openclaw/stop of each client
    reply,          \* what the step just taken answered (start, stop) or logged (boot), if anything
    holders,        \* history: users answered 200 by start since the last successful stop
    call,           \* history: the arguments and result of the last materializer call
    read,           \* the token, UI-proxy or WebSocket request being served and its answer
    tasks,          \* the two background loops and the module globals that hold their handles;
                    \* while the control plane is down: as its shutdown handler left them
    digest_config,  \* db.digest_config, the document the scheduler finds
    digest_history, \* db.digest_history, in insertion order
    last_sent_date, \* the local of digest_scheduler
    minute,         \* the time of day, and whether the scheduler has ticked in this minute
    fired,          \* history: how often the scheduler fired the pipeline on each day
    pipeline,       \* history: the last run of run_digest_for_user
    ws              \* the WebSocket connection being proxied: its sockets, relay loops and handler

digestVars == <<digest_config, digest_history, last_sent_date, minute, fired, pipeline>>

vars == <<up, now, nextTok, supRunning, gateway_state, durable,
          instanceOwner, sessions, cfg, envFile, start, stop, reply, holders, call,
          read, tasks, digestVars, ws>>

\* ------------------------------------------------------------ GatewayRuntimeState
EmptyState ==
    [token |-> NoTok, provider |-> NoProvider, started_at |-> NoTime,
     owner_user_id |-> NoUser]

\* ------------------------------------------------------------ durable records
\* updated_at of the gateway record is written and never read by the program;
\* it is left out of the record.
NoDurable ==
    [present |-> FALSE, should_run |-> FALSE, owner_user_id |-> NoUser,
     provider |-> NoProvider, token |-> NoTok, started_at |-> NoTime]

NoOwner ==
    [present |-> FALSE, user_id |-> NoUser, email |-> NoUser, locked_at |-> NoTime]

NoSession == [present |-> FALSE, expires_at |-> NoTime]

\* ------------------------------------------------------------ config file
\* status: "missing", "corrupt" (unparsable) or "ok"; the other fields are the
\* parsed tree: gateway.auth.token, models.providers (name -> apiKey),
\* agents.defaults.model.primary, agents.defaults.workspace, channels.
NoProviders == [n \in {} |-> NoKey]

NoFile ==
    [status |-> "missing", token |-> NoTok, providers |-> NoProviders,
     primary |-> NoProvider, workspace |-> "none", channels |-> {}]

NoEnv == [present |-> FALSE, token |-> NoTok, api_key |-> NoKey, provider |-> NoProvider]

NoCall ==
    [made |-> FALSE, token |-> NoTok, force |-> FALSE, fresh |-> NoTok,
     before |-> NoFile, result |-> NoTok]

\* A read request: who sent it with which credential, the user it resolved
\* to, where its handler stands ("idle", "authed", "resolved", "forward",
\* "accepted", "done"), and what it was answered: the status, the token
\* disclosed, whether anything was passed on to the gateway.
NoRead ==
    [op |-> "none", pc |-> "idle", client |-> NoUser, cred |-> "none",
     user |-> NoUser, status |-> 0, token |-> NoTok, relayed |-> FALSE]

\* ------------------------------------------------------------ the proxied WebSocket
\* pc: where websocket_proxy stands; client: the socket to the browser;
\* upstream: the connection to the gateway; client_to_moltbot, moltbot_to_client:
\* the two relay tasks; code: the close code the proxy sent to the client;
\* last: the loop that forwarded the last frame; late: that frame was forwarded
\* after the other loop had ended.
NoWs ==
    [pc |-> "idle", client |-> "none", upstream |-> "none",
     client_to_moltbot |-> "none", moltbot_to_client |-> "none",
     code |-> 0, last |-> "none", late |-> FALSE]

\* ------------------------------------------------------------ background tasks
\* watcher / scheduler: the loop is scheduled on the event loop;
\* whatsapp_watcher_task / digest_scheduler_task: the module global holds the
\* task (None otherwise).
NoTasks ==
    [watcher |-> FALSE, scheduler |-> FALSE,
     whatsapp_watcher_task |-> FALSE, digest_scheduler_task |-> FALSE]

\* The end of startup_event: both loops are created.  whatsapp_watcher_task is
\* declared global there; digest_scheduler_task is not, so the assignment
\* binds a local and the module global stays None.
TasksStarted ==
    [watcher |-> TRUE, scheduler |-> TRUE,
     whatsapp_watcher_task |-> TRUE, digest_scheduler_task |-> FALSE]

\* shutdown_db_client: each loop whose global is set is cancelled and awaited.
TasksShutDown ==
    [tasks EXCEPT !.watcher = IF tasks.whatsapp_watcher_task THEN FALSE ELSE @,
                  !.scheduler = IF tasks.digest_scheduler_task THEN FALSE ELSE @]

\* ------------------------------------------------------------ digest records
NoDay == -1

\* A send_time string, split at ":": each piece is an integer literal or not.
Piece(n) == [num |-> TRUE, val |-> n]
Junk == [num |-> FALSE, val |-> 0]

\* db.digest_config.find_one(...) finding nothing.
NoDigestConfig ==
    [present |-> FALSE, enabled |-> FALSE, send_time |-> <<>>, user_email |-> NoUser]

\* The last run of run_digest_for_user: whom it ran for, whether there were
\* messages, whether a summary came back, what the delivery gave, what it
\* returned.
NoRun ==
    [made |-> FALSE, user_email |-> NoUser, messages |-> FALSE, summary |-> FALSE,
     sent |-> FALSE, result |-> FALSE]

\* The provider entries create_moltbot_config writes for a provider.
ProviderEntries(provider, api_key) ==
    IF provider = "emergent"
    THEN LET k == IF api_key # NoKey THEN api_key ELSE DefaultEmergentKey
         IN  [n \in {"emergent-gpt", "emergent-claude"} |-> k]
    ELSE IF provider \in {"openai", "anthropic"}
    THEN [n \in {provider} |-> api_key]
    ELSE NoProviders

PrimaryOf(provider) ==
    IF provider = "emergent" THEN "emergent-claude"
    ELSE IF provider \in {"openai", "anthropic"} THEN provider
    ELSE NoProvider

\* f overridden by g on g's domain (dict item assignment).
Merge(f, g) ==
    [n \in (DOMAIN f) \cup (DOMAIN g) |-> IF n \in DOMAIN g THEN g[n] ELSE f[n]]

\* A loader that takes what it can see in a file it cannot parse.
LoadConfigLenient(file) == [file EXCEPT !.status = "ok"]

\* json.load of the file; a missing or unparsable file is the empty tree.
LoadConfig(file) ==
    IF file.status = "ok" THEN file ELSE [NoFile EXCEPT !.status = "ok"]

\* A config writer that never looks for the token already in the file.
ExistingTokenForgotten(file, force_new_token) == NoTok

\* existing_token of create_moltbot_config.
ExistingToken(file, force_new_token) ==
    IF force_new_token THEN NoTok ELSE LoadConfig(file).token

\* The same with the caller's token taken before the one of the file.
FinalTokenSwapped(existing_token, token, fresh) ==
    IF Truthy(token) THEN token
    ELSE IF Truthy(existing_token) THEN existing_token
    ELSE fresh

\* final_token = existing_token or token or generate_token()
FinalToken(existing_token, token, fresh) ==
    IF Truthy(existing_token) THEN existing_token
    ELSE IF Truthy(token) THEN token
    ELSE fresh

\* generate_token() is evaluated only when both operands before it are falsy.
Generates(file, token, force_new_token) ==
    ~Truthy(ExistingToken(file, force_new_token)) /\ ~Truthy(token)

\* The tree create_moltbot_config writes back.
WrittenConfig(file, final_token, api_key, provider) ==
    LET base == LoadConfig(file)
    IN  [status |-> "ok",
         token |-> final_token,
         providers |-> Merge(base.providers, ProviderEntries(provider, api_key)),
         primary |-> IF PrimaryOf(provider) # NoProvider THEN PrimaryOf(provider)
                     ELSE base.primary,
         workspace |-> WORKSPACE_DIR,
         channels |-> base.channels]

\* create_moltbot_config(token, api_key, provider, force_new_token): the file
\* written and the token returned; fresh is what generate_token would return.
CreateMoltbotConfig(file, token, api_key, provider, force_new_token, fresh) ==
    LET final == FinalToken(ExistingToken(file, force_new_token), token, fresh)
    IN  [file |-> WrittenConfig(file, final, api_key, provider), token |-> final]

\* config.get("gateway", {}).get("auth", {}).get("token") of the file on disk;
\* None when the file cannot be read.
FileToken(file) == IF file.status = "ok" THEN file.token ELSE NoTok

\* ------------------------------------------------------------ requests
\* A start request between its awaits: "authed" after require_auth, "wait" in
\* the readiness loop, "lock" while set_instance_owner is awaited; token and
\* provider are the locals of start_gateway_process.
IdleStart == [pc |-> "idle", token |-> NoTok, provider |-> NoProvider, polls |-> 0]

\* A stop request between its awaits: "authed" after require_auth, then the
\* awaited durable write of the branch taken ("idle_ret": not running,
\* "run_ret": supervisor stop succeeded, "fail_ret": supervisor stop failed).
IdleStop == [pc |-> "idle"]

NoResponse == [op |-> "none", status |-> 0, detail |-> "none"]

Response(op, status, detail) == [op |-> op, status |-> status, detail |-> detail]

Creds == {"none", "cookie", "bearer"}

\* A session lookup that never looks at expires_at.
GetCurrentUserNoExpiry(c, cred) ==
    IF cred = "none" THEN NoUser
    ELSE IF ~sessions[c].present THEN NoUser
    ELSE c

\* get_current_user: the user a credential resolves to, or NoUser.  A client
\* presents its own session token (as the cookie or as a bearer header) or none.
GetCurrentUser(c, cred) ==
    IF cred = "none" THEN NoUser
    ELSE IF ~sessions[c].present THEN NoUser
    ELSE IF sessions[c].expires_at < now THEN NoUser
    ELSE c

\* An access check that lets everybody in.
CheckInstanceAccessOpen(u) == TRUE

\* An access check that admits nobody until the instance is locked.
CheckInstanceAccessClosed(u) == instanceOwner.present /\ instanceOwner.user_id = u

\* check_instance_access
CheckInstanceAccess(u) ==
    IF ~instanceOwner.present THEN TRUE ELSE instanceOwner.user_id = u

\* require_auth: 0 when the user may pass, else the status of the rejection.
RequireAuth(c, cred) ==
    IF GetCurrentUser(c, cred) = NoUser THEN 401
    ELSE IF ~CheckInstanceAccess(c) THEN 403
    ELSE 0

AuthDetail(status) == IF status = 401 THEN "not authenticated" ELSE "locked"

\* The upsert written with $set: the last writer wins.
SetInstanceOwnerOverwrite(u) ==
    [present |-> TRUE, user_id |-> u, email |-> Email(u), locked_at |-> now]

\* set_instance_owner: an upsert whose fields are all $setOnInsert.
SetInstanceOwner(u) ==
    IF instanceOwner.present THEN instanceOwner
    ELSE [present |-> TRUE, user_id |-> u, email |-> Email(u), locked_at |-> now]

\* check_gateway_running / SupervisorClient.status()
CheckGatewayRunning == supRunning

\* The $set of start_gateway_process on {_id: gateway_config}, upsert=True.
DurableStarted(owner, provider, token, started_at) ==
    [present |-> TRUE, should_run |-> TRUE, owner_user_id |-> owner,
     provider |-> provider, token |-> token, started_at |-> started_at]

\* A stop that forgets the durable write.
DurableStoppedKept == durable

\* The $set of stop_moltbot on {_id: gateway_config}: no upsert, so an absent
\* document stays absent.
DurableStopped ==
    IF durable.present THEN [durable EXCEPT !.should_run = FALSE] ELSE durable

\* write_gateway_env / clear_gateway_env
WriteGatewayEnv(token, api_key, provider) ==
    [present |-> TRUE, token |-> token, api_key |-> api_key, provider |-> provider]

ClearGatewayEnv == NoEnv

\* ------------------------------------------------------------ Init
\* No digest configured, nothing sent, the scheduler not yet in its loop.
DigestIdle ==
    /\ digest_config = <<>>
    /\ digest_history = <<>>
    /\ last_sent_date = NoDay
    /\ minute = [at |-> 1, ticked |-> FALSE, matched |-> FALSE]
    /\ fired = [d \in 0..MaxDay |-> {}]
    /\ pipeline = NoRun

Init ==
    /\ up = FALSE
    /\ now = 0
    /\ nextTok = 1
    /\ supRunning = FALSE
    /\ gateway_state = EmptyState
    /\ durable = NoDurable
    /\ instanceOwner = NoOwner
    /\ sessions = [u \in Users |-> NoSession]
    /\ cfg = NoFile
    /\ envFile = NoEnv
    /\ start = [c \in Users |-> IdleStart]
    /\ stop = [c \in Users |-> IdleStop]
    /\ reply = NoResponse
    /\ holders = {}
    /\ call = NoCall
    /\ read = NoRead
    /\ tasks = NoTasks
    /\ ws = NoWs
    /\ DigestIdle

\* The number of requests that have passed require_auth and not yet answered.
Inflight ==
    Cardinality({c \in Users : start[c].pc # "idle"}) +
    Cardinality({c \in Users : stop[c].pc # "idle"})

\* A step that answers no request.
Quiet == reply' = NoResponse

\* ------------------------------------------------------------ environment
\* The gateway process exits (crash, kill): the supervisor reports not running.
ProcExit ==
    /\ supRunning
    /\ supRunning' = FALSE
    /\ Quiet
    /\ UNCHANGED <<up, now, nextTok, gateway_state, durable, instanceOwner,
                   sessions, cfg, envFile, start, stop, holders, call, read, tasks, digestVars, ws>>

\* The control plane shuts down (shutdown_db_client) and its process ends: the
\* gateway is left to the supervisor, in-flight requests are dropped and
\* gateway_state is gone with the process.
Shutdown ==
    /\ up
    /\ up' = FALSE
    /\ tasks' = TasksShutDown
    /\ gateway_state' = EmptyState
    /\ start' = [c \in Users |-> IdleStart]
    /\ stop' = [c \in Users |-> IdleStop]
    /\ Quiet
    /\ UNCHANGED <<now, nextTok, supRunning, durable, instanceOwner,
                   sessions, cfg, envFile, holders, call, read, digestVars, ws>>

\* ------------------------------------------------------------ startup_event
\* A reconciliation that starts whatever has a durable record.
ShouldRunIgnoresFlag == durable.present

\* should_run of startup_event: the flag of the record, false without a record.
ShouldRun == durable.present /\ durable.should_run

\* Supervisor reports running: adopt it.
\* An adoption that takes the token from the durable record.
BootAdoptedRecordToken ==
    [provider |-> IF durable.present THEN durable.provider ELSE "emergent",
     token |-> durable.token,
     owner_user_id |-> IF durable.present THEN durable.owner_user_id ELSE NoUser,
     started_at |-> IF durable.present THEN durable.started_at ELSE NoTime]

\* gateway_state after the adoption: provider, owner and started_at of the
\* durable record, the token of the config file.
BootAdopted ==
    [provider |-> IF durable.present THEN durable.provider ELSE "emergent",
     token |-> IF cfg.status = "ok" THEN cfg.token ELSE NoTok,
     owner_user_id |-> IF durable.present THEN durable.owner_user_id ELSE NoUser,
     started_at |-> IF durable.present THEN durable.started_at ELSE NoTime]

BootAdopt ==
    /\ ~up
    /\ supRunning
    /\ gateway_state' = BootAdopted
    /\ up' = TRUE
    /\ tasks' = TasksStarted
    /\ reply' = Response("boot", 0, "adopted")
    /\ UNCHANGED <<now, nextTok, supRunning, durable, instanceOwner, sessions, cfg,
                   envFile, start, stop, holders, call, read, digestVars, ws>>

\* The token startup_event hands to the supervisor wrapper on auto-start.
BootToken(fresh) ==
    IF Truthy(durable.token) THEN durable.token
    ELSE IF cfg.status = "ok" THEN cfg.token
    ELSE fresh

BootGenerates == ~Truthy(durable.token) /\ cfg.status # "ok"

\* An auto-start that forgets who owned the gateway.
BootRecoveredNoOwner(token) ==
    [token |-> token, provider |-> durable.provider,
     owner_user_id |-> NoUser, started_at |-> durable.started_at]

\* The in-memory state startup_event rebuilds after a successful auto-start.
BootRecovered(token) ==
    [token |-> token, provider |-> durable.provider,
     owner_user_id |-> durable.owner_user_id,
     started_at |-> durable.started_at]

\* Not running but should_run: auto-start; ok is what SupervisorClient.start() returns.
BootAutoStart(ok) ==
    /\ ~up
    /\ ~supRunning /\ ShouldRun
    /\ BootGenerates => nextTok <= MaxTok
    /\ LET token == BootToken(nextTok)
       IN  /\ nextTok' = IF BootGenerates THEN nextTok + 1 ELSE nextTok
           /\ envFile' = WriteGatewayEnv(token, NoKey, durable.provider)
           /\ supRunning' = ok
           /\ gateway_state' = IF ok THEN BootRecovered(token) ELSE gateway_state
    /\ up' = TRUE
    /\ tasks' = TasksStarted
    /\ reply' = Response("boot", 0, IF ok THEN "auto-started" ELSE "auto-start failed")
    /\ UNCHANGED <<now, durable, instanceOwner, sessions, cfg, start, stop,
                   holders, call, read, digestVars, ws>>

\* Not running and no intent to run: stay stopped.
BootIdle ==
    /\ ~up
    /\ ~supRunning /\ ~ShouldRun
    /\ up' = TRUE
    /\ tasks' = TasksStarted
    /\ reply' = Response("boot", 0, "stopped")
    /\ UNCHANGED <<now, nextTok, supRunning, gateway_state, durable, instanceOwner,
                   sessions, cfg, envFile, start, stop, holders, call, read, digestVars, ws>>

\* ------------------------------------------------------------ sessions
\* get_instance_status: the body GET /auth/instance answers in the current
\* state.  The endpoint is public and reads only whether the owner record
\* exists.
GetInstanceStatusInMemory == [locked |-> gateway_state.owner_user_id # NoUser]

GetInstanceStatus == [locked |-> instanceOwner.present]

\* create_session: the identity exchange succeeded for u.  On a locked instance
\* another email is refused (403) and no session is written.  reply records
\* the answers of start and stop only.
Login(u) ==
    /\ up
    /\ sessions' =
         IF instanceOwner.present /\ instanceOwner.email # Email(u)
         THEN sessions
         ELSE [sessions EXCEPT ![u] =
                  [present |-> TRUE, expires_at |-> now + SESSION_EXPIRY_DAYS]]
    /\ Quiet
    /\ UNCHANGED <<up, now, nextTok, supRunning, gateway_state, durable,
                   instanceOwner, cfg, envFile, start, stop, holders, call, read, tasks, digestVars, ws>>

\* logout: the session row is deleted when the token came as the cookie.
Logout(c, cred) ==
    /\ up
    /\ sessions' = IF cred = "cookie" THEN [sessions EXCEPT ![c] = NoSession]
                   ELSE sessions
    /\ Quiet
    /\ UNCHANGED <<up, now, nextTok, supRunning, gateway_state, durable,
                   instanceOwner, cfg, envFile, start, stop, holders, call, read, tasks, digestVars, ws>>

\* ------------------------------------------------------------ POST /openclaw/start
StartReply(c, status, detail) ==
    /\ start' = [start EXCEPT ![c] = IdleStart]
    /\ reply' = Response("start", status, detail)

\* require_auth of start_moltbot.
StartAuth(c, cred) ==
    /\ up /\ start[c].pc = "idle"
    /\ RequireAuth(c, cred) = 0 => Inflight < MaxInflight
    /\ IF RequireAuth(c, cred) # 0
       THEN StartReply(c, RequireAuth(c, cred), AuthDetail(RequireAuth(c, cred)))
       ELSE start' = [start EXCEPT ![c].pc = "authed"] /\ Quiet
    /\ UNCHANGED <<up, now, nextTok, supRunning, gateway_state, durable,
                   instanceOwner, sessions, cfg, envFile, stop, holders, call, read, tasks, digestVars, ws>>

\* The validation of start_moltbot.
ValidStart(provider, api_key) ==
    /\ provider \in ValidProviders
    /\ provider \in {"anthropic", "openai"} =>
           (api_key # NoKey /\ KeyLen(api_key) >= MinApiKeyLen)

\* A start that never finds a conflict.
OwnerConflictIgnored(c) == FALSE

\* The ownership check of start_moltbot.
OwnerConflict(c) == CheckGatewayRunning /\ gateway_state.owner_user_id # c

\* 400: bad provider, or a missing or short key.
StartInvalid(c, provider, api_key) ==
    /\ up /\ start[c].pc = "authed"
    /\ ~ValidStart(provider, api_key)
    /\ StartReply(c, 400, "invalid")
    /\ UNCHANGED <<up, now, nextTok, supRunning, gateway_state, durable,
                   instanceOwner, sessions, cfg, envFile, stop, holders, call, read, tasks, digestVars, ws>>

\* 403: running and owned by somebody else.
StartConflict(c, provider, api_key) ==
    /\ up /\ start[c].pc = "authed"
    /\ ValidStart(provider, api_key)
    /\ OwnerConflict(c)
    /\ StartReply(c, 403, "conflict")
    /\ UNCHANGED <<up, now, nextTok, supRunning, gateway_state, durable,
                   instanceOwner, sessions, cfg, envFile, stop, holders, call, read, tasks, digestVars, ws>>

\* start_gateway_process, supervisor reports running: recover the token from
\* the config file (or mint one and force it into the file), take ownership
\* and write the durable record.
StartAdopt(c, provider, api_key) ==
    /\ up /\ start[c].pc = "authed"
    /\ ValidStart(provider, api_key)
    /\ ~OwnerConflict(c)
    /\ supRunning
    /\ ~Truthy(FileToken(cfg)) => nextTok <= MaxTok
    /\ LET mint == ~Truthy(FileToken(cfg))
           token == IF mint THEN nextTok ELSE FileToken(cfg)
       IN  /\ nextTok' = IF mint THEN nextTok + 1 ELSE nextTok
           /\ cfg' = IF mint
                     THEN CreateMoltbotConfig(cfg, token, api_key, provider, TRUE,
                                              nextTok + 1).file
                     ELSE cfg
           /\ gateway_state' = [token |-> token, provider |-> provider,
                                started_at |-> now, owner_user_id |-> c]
           /\ durable' = DurableStarted(c, provider, token, now)
           /\ start' = [start EXCEPT ![c] =
                            [pc |-> "lock", token |-> token,
                             provider |-> provider, polls |-> 0]]
    /\ Quiet
    /\ UNCHANGED <<up, now, supRunning, instanceOwner, sessions, envFile,
                   stop, holders, call, read, tasks, digestVars, ws>>

\* start_gateway_process, not running, clawdbot cannot be found or installed.
StartNotInstalled(c, provider, api_key) ==
    /\ up /\ start[c].pc = "authed"
    /\ ValidStart(provider, api_key)
    /\ ~OwnerConflict(c)
    /\ ~supRunning
    /\ StartReply(c, 500, "not installed")
    /\ UNCHANGED <<up, now, nextTok, supRunning, gateway_state, durable,
                   instanceOwner, sessions, cfg, envFile, stop, holders, call, read, tasks, digestVars, ws>>

\* start_gateway_process, not running: write config and hand-off, then
\* SupervisorClient.start() returns ok.
StartLaunch(c, provider, api_key, ok) ==
    /\ up /\ start[c].pc = "authed"
    /\ ValidStart(provider, api_key)
    /\ ~OwnerConflict(c)
    /\ ~supRunning
    /\ Generates(cfg, NoTok, FALSE) => nextTok <= MaxTok
    /\ LET made == CreateMoltbotConfig(cfg, NoTok, api_key, provider, FALSE, nextTok)
       IN  /\ nextTok' = IF Generates(cfg, NoTok, FALSE) THEN nextTok + 1 ELSE nextTok
           /\ cfg' = made.file
           /\ envFile' = WriteGatewayEnv(made.token, api_key, provider)
           /\ supRunning' = ok
           /\ IF ok
              THEN /\ gateway_state' = [token |-> made.token, provider |-> provider,
                                        started_at |-> now, owner_user_id |-> c]
                   /\ start' = [start EXCEPT ![c] =
                          [pc |-> "wait", token |-> made.token,
                           provider |-> provider, polls |-> 0]]
                   /\ Quiet
              ELSE /\ StartReply(c, 500, "supervisor start failed")
                   /\ UNCHANGED gateway_state
    /\ UNCHANGED <<up, now, durable, instanceOwner, sessions, stop,
                   holders, call, read, tasks, digestVars, ws>>

\* A readiness probe is answered 200: the durable record is written with the
\* request's own owner, provider and token, and the started_at that
\* gateway_state holds at this moment.
StartReady(c) ==
    /\ up /\ start[c].pc = "wait"
    /\ supRunning
    /\ durable' = DurableStarted(c, start[c].provider, start[c].token,
                                 gateway_state.started_at)
    /\ start' = [start EXCEPT ![c].pc = "lock"]
    /\ Quiet
    /\ UNCHANGED <<up, now, nextTok, supRunning, gateway_state,
                   instanceOwner, sessions, cfg, envFile, stop, holders, call, read, tasks, digestVars, ws>>

\* The readiness window (max_wait) runs out without a probe answered 200; a
\* failed probe before that changes nothing.  The start gives up with 500 and
\* leaves the supervisor and gateway_state as they are.
StartTimeout(c) ==
    /\ up /\ start[c].pc = "wait"
    /\ StartReply(c, 500, "not ready")
    /\ UNCHANGED <<up, now, nextTok, supRunning, gateway_state, durable,
                   instanceOwner, sessions, cfg, envFile, stop, holders, call, read, tasks, digestVars, ws>>

\* set_instance_owner takes effect and start_moltbot answers 200 with the
\* token start_gateway_process returned (start[c].token).
StartLock(c) ==
    /\ up /\ start[c].pc = "lock"
    /\ instanceOwner' = SetInstanceOwner(c)
    /\ StartReply(c, 200, "started")
    /\ holders' = holders \cup {c}
    /\ UNCHANGED <<up, now, nextTok, supRunning, gateway_state, durable,
                   sessions, cfg, envFile, stop, call, read, tasks, digestVars, ws>>

\* ------------------------------------------------------------ POST /openclaw/stop
StopReply(c, status, detail) ==
    /\ stop' = [stop EXCEPT ![c] = IdleStop]
    /\ reply' = Response("stop", status, detail)

\* require_auth of stop_moltbot.
StopAuth(c, cred) ==
    /\ up /\ stop[c].pc = "idle"
    /\ RequireAuth(c, cred) = 0 => Inflight < MaxInflight
    /\ IF RequireAuth(c, cred) # 0
       THEN StopReply(c, RequireAuth(c, cred), AuthDetail(RequireAuth(c, cred)))
       ELSE stop' = [stop EXCEPT ![c].pc = "authed"] /\ Quiet
    /\ UNCHANGED <<up, now, nextTok, supRunning, gateway_state, durable,
                   instanceOwner, sessions, cfg, envFile, start, holders, call, read, tasks, digestVars, ws>>

\* Not running: only the should_run flag is cleared.
StopIdle(c) ==
    /\ up /\ stop[c].pc = "authed"
    /\ ~CheckGatewayRunning
    /\ durable' = DurableStopped
    /\ stop' = [stop EXCEPT ![c].pc = "idle_ret"]
    /\ Quiet
    /\ UNCHANGED <<up, now, nextTok, supRunning, gateway_state,
                   instanceOwner, sessions, cfg, envFile, start, holders, call, read, tasks, digestVars, ws>>

\* The not-running branch answers 200.
StopIdleReturn(c) ==
    /\ up /\ stop[c].pc = "idle_ret"
    /\ StopReply(c, 200, "not running")
    /\ holders' = {}
    /\ UNCHANGED <<up, now, nextTok, supRunning, gateway_state, durable,
                   instanceOwner, sessions, cfg, envFile, start, call, read, tasks, digestVars, ws>>

\* A stop that takes everybody for the owner.
NotOwnerNobody(c) == FALSE

\* The owner check of stop_moltbot.
NotOwner(c) == gateway_state.owner_user_id # c

\* Running and the requester is not the in-memory owner: 403.
StopDenied(c) ==
    /\ up /\ stop[c].pc = "authed"
    /\ CheckGatewayRunning
    /\ NotOwner(c)
    /\ StopReply(c, 403, "only owner")
    /\ UNCHANGED <<up, now, nextTok, supRunning, gateway_state, durable,
                   instanceOwner, sessions, cfg, envFile, start, holders, call, read, tasks, digestVars, ws>>

\* Running and owned by the requester: SupervisorClient.stop() returns ok, the
\* hand-off is cleared and the should_run flag is cleared.
StopSupervisor(c, ok) ==
    /\ up /\ stop[c].pc = "authed"
    /\ CheckGatewayRunning
    /\ ~NotOwner(c)
    /\ supRunning' = IF ok THEN FALSE ELSE supRunning
    /\ envFile' = ClearGatewayEnv
    /\ durable' = DurableStopped
    /\ stop' = [stop EXCEPT ![c].pc = IF ok THEN "run_ret" ELSE "fail_ret"]
    /\ Quiet
    /\ UNCHANGED <<up, now, nextTok, gateway_state, instanceOwner, sessions,
                   cfg, start, holders, call, read, tasks, digestVars, ws>>

\* A clearing that leaves owner_user_id in place.
ClearedStateKeepsOwner == [EmptyState EXCEPT !.owner_user_id = gateway_state.owner_user_id]

\* The in-memory state left by stop_moltbot.
ClearedState == EmptyState

\* The running branch resumes: it clears the in-memory state and answers 200.
StopFinish(c) ==
    /\ up /\ stop[c].pc \in {"run_ret", "fail_ret"}
    /\ gateway_state' = ClearedState
    /\ StopReply(c, 200, IF stop[c].pc = "run_ret" THEN "stopped"
                         ELSE "stopped, supervisor stop failed")
    /\ holders' = {}
    /\ UNCHANGED <<up, now, nextTok, supRunning, durable, instanceOwner,
                   sessions, cfg, envFile, start, call, read, tasks, digestVars, ws>>

\* ------------------------------------------------------------ the system
Next ==
    \/ ProcExit
    \/ Shutdown
    \/ BootAdopt
    \/ \E ok \in BOOLEAN : BootAutoStart(ok)
    \/ BootIdle
    \/ \E u \in Users : Login(u)
    \/ \E c \in Users, cred \in Creds : Logout(c, cred)
    \/ \E c \in Users, cred \in Creds : StartAuth(c, cred)
    \/ \E c \in Users, in \in StartInputs : StartInvalid(c, in[1], in[2])
    \/ \E c \in Users, in \in StartInputs : StartConflict(c, in[1], in[2])
    \/ \E c \in Users, in \in StartInputs : StartAdopt(c, in[1], in[2])
    \/ \E c \in Users, in \in StartInputs : StartNotInstalled(c, in[1], in[2])
    \/ \E c \in Users, in \in StartInputs, ok \in BOOLEAN :
           StartLaunch(c, in[1], in[2], ok)
    \/ \E c \in Users : StartReady(c)
    \/ \E c \in Users : StartTimeout(c)
    \/ \E c \in Users : StartLock(c)
    \/ \E c \in Users, cred \in Creds : StopAuth(c, cred)
    \/ \E c \in Users : StopIdle(c)
    \/ \E c \in Users : StopIdleReturn(c)
    \/ \E c \in Users : StopDenied(c)
    \/ \E c \in Users, ok \in BOOLEAN : StopSupervisor(c, ok)
    \/ \E c \in Users : StopFinish(c)

Spec == Init /\ [][Next]_vars

\* startup_event runs to its end once the process is launched: nothing else
\* is scheduled before it, so a boot that can proceed does proceed.
Boot ==
    \/ BootAdopt
    \/ \E ok \in BOOLEAN : BootAutoStart(ok)
    \/ BootIdle

SpecBoot == Spec /\ WF_vars(Boot)

\* ------------------------------------------------------------ the materializer alone
\* create_moltbot_config called in any order with any arguments, on any file
\* it may find on disk: missing, unparsable, or a tree with or without a token.
OldTok == 8                     \* a token already in the file
CallerTok == 9                  \* a token passed by the caller

OtherProviders == [n \in {"custom"} |-> GoodKey]

\* A workspace path other than WORKSPACE_DIR.
OtherWorkspace == "~/elsewhere"

\* The names create_moltbot_config registers providers under.
OwnProviderNames == {"emergent-gpt", "emergent-claude", "openai", "anthropic"}

\* The unparsable files are an empty one and a truncated one in which the
\* text of a token can still be seen.
ConfigFiles ==
    {NoFile, [NoFile EXCEPT !.status = "corrupt"],
     [NoFile EXCEPT !.status = "corrupt", !.token = OldTok]} \cup
    [status : {"ok"}, token : {NoTok, EmptyTok, OldTok},
     providers : {NoProviders, OtherProviders}, primary : {NoProvider},
     workspace : {"none", WORKSPACE_DIR, OtherWorkspace},
     channels : {{}, {"telegram"}}]

ConfigTokens == {NoTok, EmptyTok, CallerTok}
ConfigKeys == {NoKey, GoodKey}
ConfigProviders == ValidProviders \cup {"bogus"}

InitConfig ==
    /\ up = FALSE
    /\ now = 0
    /\ nextTok = 1
    /\ supRunning = FALSE
    /\ gateway_state = EmptyState
    /\ durable = NoDurable
    /\ instanceOwner = NoOwner
    /\ sessions = [u \in Users |-> NoSession]
    /\ cfg \in ConfigFiles
    /\ envFile = NoEnv
    /\ start = [c \in Users |-> IdleStart]
    /\ stop = [c \in Users |-> IdleStop]
    /\ reply = NoResponse
    /\ holders = {}
    /\ call = NoCall
    /\ read = NoRead
    /\ tasks = NoTasks
    /\ ws = NoWs
    /\ DigestIdle

\* One call of create_moltbot_config; call records its arguments, the file it
\* found, what generate_token would have returned, and the token it returned.
Materialize(token, api_key, provider, force_new_token) ==
    /\ Generates(cfg, token, force_new_token) => nextTok <= MaxTok
    /\ LET made == CreateMoltbotConfig(cfg, token, api_key, provider,
                                       force_new_token, nextTok)
       IN  /\ cfg' = made.file
           /\ call' = [made |-> TRUE, token |-> token, force |-> force_new_token,
                       fresh |-> nextTok, before |-> cfg, result |-> made.token]
    /\ nextTok' = IF Generates(cfg, token, force_new_token) THEN nextTok + 1
                  ELSE nextTok
    /\ UNCHANGED <<up, now, supRunning, gateway_state, durable, instanceOwner,
                   sessions, envFile, start, stop, reply, holders, read, tasks, digestVars, ws>>

NextConfig ==
    \E token \in ConfigTokens, api_key \in ConfigKeys,
       provider \in ConfigProviders, force_new_token \in BOOLEAN :
        Materialize(token, api_key, provider, force_new_token)

SpecConfig == InitConfig /\ [][NextConfig]_vars

\* ------------------------------------------------------------ the read endpoints
\* GET /openclaw/token, /openclaw/ui/{path} and the WebSocket /openclaw/ws,
\* served one request at a time over an instance the lifecycle has left in
\* one of its resting states, while the gateway may exit, sessions are logged
\* out and the clock runs past the sessions' expiry.
MaxClock == 8                   \* days the clock runs: one past the life of a day-0 session

\* The first launch of the instance: day 0, provider emergent, no file on disk.
Launched == CreateMoltbotConfig(NoFile, NoTok, NoKey, "emergent", FALSE, 1)

LaunchedState(u) ==
    [token |-> Launched.token, provider |-> "emergent", started_at |-> 0,
     owner_user_id |-> u]

LockedTo(u) == [present |-> TRUE, user_id |-> u, email |-> Email(u), locked_at |-> 0]

Other(u) == CHOOSE v \in Users : v # u

\* Resting states of the lifecycle (no start or stop in flight).
RestingStates ==
    {[running |-> FALSE, state |-> EmptyState, record |-> NoDurable,
      owner |-> NoOwner, env |-> NoEnv, file |-> NoFile, tok |-> 1, held |-> {}]}
    \cup
    UNION {
      LET env == WriteGatewayEnv(Launched.token, NoKey, "emergent")
          rec == DurableStarted(u, "emergent", Launched.token, 0)
      IN {
        \* started by u and locked to u: running, or crashed since
        [running |-> TRUE, state |-> LaunchedState(u), record |-> rec,
         owner |-> LockedTo(u), env |-> env, file |-> Launched.file, tok |-> 2,
         held |-> {u}],
        [running |-> FALSE, state |-> LaunchedState(u), record |-> rec,
         owner |-> LockedTo(u), env |-> env, file |-> Launched.file, tok |-> 2,
         held |-> {u}],
        \* started by u, then stopped by u
        [running |-> FALSE, state |-> EmptyState,
         record |-> [rec EXCEPT !.should_run = FALSE],
         owner |-> LockedTo(u), env |-> NoEnv, file |-> Launched.file, tok |-> 2,
         held |-> {}],
        \* launched by u, never ready: nothing durable written
        [running |-> TRUE, state |-> LaunchedState(u), record |-> NoDurable,
         owner |-> NoOwner, env |-> env, file |-> Launched.file, tok |-> 2,
         held |-> {}],
        \* that launch adopted by a restarted control plane: no owner in memory
        [running |-> TRUE,
         state |-> [LaunchedState(u) EXCEPT !.owner_user_id = NoUser,
                                            !.started_at = NoTime],
         record |-> NoDurable, owner |-> NoOwner, env |-> env,
         file |-> Launched.file, tok |-> 2, held |-> {}],
        \* started by u, who had passed require_auth before the other user
        \* started, locked the instance and stopped
        [running |-> TRUE, state |-> LaunchedState(u), record |-> rec,
         owner |-> LockedTo(Other(u)), env |-> env, file |-> Launched.file,
         tok |-> 2, held |-> {u}]
      } : u \in Users }

\* A session created on day 0.
DayZeroSession == [present |-> TRUE, expires_at |-> SESSION_EXPIRY_DAYS]

InitAccess ==
    /\ up = TRUE
    /\ now = 0
    /\ \E s \in RestingStates :
          /\ supRunning = s.running
          /\ gateway_state = s.state
          /\ durable = s.record
          /\ instanceOwner = s.owner
          /\ envFile = s.env
          /\ cfg = s.file
          /\ nextTok = s.tok
          /\ holders = s.held
    /\ sessions \in [Users -> {NoSession, DayZeroSession}]
    /\ start = [c \in Users |-> IdleStart]
    /\ stop = [c \in Users |-> IdleStop]
    /\ reply = NoResponse
    /\ call = NoCall
    /\ read = NoRead
    /\ tasks = TasksStarted
    /\ ws = NoWs
    /\ DigestIdle

\* A day passes.
TimePasses ==
    /\ now < MaxClock
    /\ now' = now + 1
    /\ UNCHANGED <<up, nextTok, supRunning, gateway_state, durable, instanceOwner,
                   sessions, cfg, envFile, start, stop, reply, holders, call, read, tasks, digestVars, ws>>

\* A new request is taken when the one before it has been answered.
ReadFree == read.pc \in {"idle", "done"}

Answered(op, c, cred, user, status, token, relayed) ==
    [op |-> op, pc |-> "done", client |-> c, cred |-> cred, user |-> user,
     status |-> status, token |-> token, relayed |-> relayed]

Pending(op, pc, c, cred, user) ==
    [op |-> op, pc |-> pc, client |-> c, cred |-> cred, user |-> user,
     status |-> 0, token |-> NoTok, relayed |-> FALSE]

\* require_auth of get_moltbot_token: the rejection, or the request going on.
TokenAuthed(c, cred) ==
    IF RequireAuth(c, cred) # 0
    THEN Answered("token", c, cred, NoUser, RequireAuth(c, cred), NoTok, FALSE)
    ELSE Pending("token", "authed", c, cred, c)

TokenAuth(c, cred) ==
    /\ up /\ ReadFree
    /\ read' = TokenAuthed(c, cred)
    /\ UNCHANGED <<up, now, nextTok, supRunning, gateway_state, durable,
                   instanceOwner, sessions, cfg, envFile, start, stop, reply,
                   holders, call, tasks, digestVars, ws>>

\* A token endpoint that hands the token to whoever passed require_auth.
GetMoltbotTokenAnyUser(user) ==
    IF ~CheckGatewayRunning THEN [status |-> 404, token |-> NoTok]
    ELSE [status |-> 200, token |-> gateway_state.token]

\* get_moltbot_token after require_auth: the status and the token returned.
GetMoltbotToken(user) ==
    IF ~CheckGatewayRunning THEN [status |-> 404, token |-> NoTok]
    ELSE IF gateway_state.owner_user_id # user THEN [status |-> 403, token |-> NoTok]
    ELSE [status |-> 200, token |-> gateway_state.token]

TokenHandle ==
    /\ up /\ read.op = "token" /\ read.pc = "authed"
    /\ LET r == GetMoltbotToken(read.user)
       IN  read' = Answered("token", read.client, read.cred, read.user,
                            r.status, r.token, FALSE)
    /\ UNCHANGED <<up, now, nextTok, supRunning, gateway_state, durable,
                   instanceOwner, sessions, cfg, envFile, start, stop, reply,
                   holders, call, tasks, digestVars, ws>>

\* get_current_user of proxy_moltbot_ui.
ProxyResolved(c, cred) == Pending("ui", "resolved", c, cred, GetCurrentUser(c, cred))

ProxyResolve(c, cred) ==
    /\ up /\ ReadFree
    /\ read' = ProxyResolved(c, cred)
    /\ UNCHANGED <<up, now, nextTok, supRunning, gateway_state, durable,
                   instanceOwner, sessions, cfg, envFile, start, stop, reply,
                   holders, call, tasks, digestVars, ws>>

\* A proxy that lets every logged-in user through.
ProxyMoltbotUiAnyUser(user) ==
    IF ~CheckGatewayRunning THEN 503
    ELSE IF user = NoUser THEN 403
    ELSE 0

\* A proxy that never asks the supervisor.
ProxyMoltbotUiUnprobed(user) ==
    IF user = NoUser \/ gateway_state.owner_user_id # user THEN 403
    ELSE 0

\* proxy_moltbot_ui after get_current_user: the status of the page it answers
\* with, or 0 when it goes on to forward the request.
ProxyMoltbotUi(user) ==
    IF ~CheckGatewayRunning THEN 503
    ELSE IF user = NoUser \/ gateway_state.owner_user_id # user THEN 403
    ELSE 0

ProxyCheck ==
    /\ up /\ read.op = "ui" /\ read.pc = "resolved"
    /\ read' = IF ProxyMoltbotUi(read.user) # 0
               THEN Answered("ui", read.client, read.cred, read.user,
                             ProxyMoltbotUi(read.user), NoTok, FALSE)
               ELSE Pending("ui", "forward", read.client, read.cred, read.user)
    /\ UNCHANGED <<up, now, nextTok, supRunning, gateway_state, durable,
                   instanceOwner, sessions, cfg, envFile, start, stop, reply,
                   holders, call, tasks, digestVars, ws>>

\* client.request(...): the gateway answers, or the connection fails (502).
ProxyForward ==
    /\ up /\ read.op = "ui" /\ read.pc = "forward"
    /\ read' = IF supRunning
               THEN Answered("ui", read.client, read.cred, read.user, 200, NoTok, TRUE)
               ELSE Answered("ui", read.client, read.cred, read.user, 502, NoTok, FALSE)
    /\ UNCHANGED <<up, now, nextTok, supRunning, gateway_state, durable,
                   instanceOwner, sessions, cfg, envFile, start, stop, reply,
                   holders, call, tasks, digestVars, ws>>

\* websocket_proxy: the handshake is accepted; no credential is looked at.
WsAccepted(c, cred) == Pending("ws", "accepted", c, cred, NoUser)

WsAccept(c, cred) ==
    /\ up /\ ReadFree
    /\ read' = WsAccepted(c, cred)
    /\ UNCHANGED <<up, now, nextTok, supRunning, gateway_state, durable,
                   instanceOwner, sessions, cfg, envFile, start, stop, reply,
                   holders, call, tasks, digestVars, ws>>

\* websocket_proxy after accept: close 1013 when not running, else connect
\* upstream with the token of gateway_state and relay until a side closes
\* (1011).
WsRelay ==
    /\ up /\ read.op = "ws" /\ read.pc = "accepted"
    /\ read' = IF ~CheckGatewayRunning
               THEN Answered("ws", read.client, read.cred, read.user, 1013, NoTok, FALSE)
               ELSE Answered("ws", read.client, read.cred, read.user, 1011,
                             gateway_state.token, TRUE)
    /\ UNCHANGED <<up, now, nextTok, supRunning, gateway_state, durable,
                   instanceOwner, sessions, cfg, envFile, start, stop, reply,
                   holders, call, tasks, digestVars, ws>>

\* The routes that call require_auth, with the line of server.py at which
\* each is added to api_router.
RouteLine ==
    [route \in {"POST openclaw/start", "POST openclaw/stop", "GET openclaw/token",
                "POST chat/message", "GET chat/sessions", "GET chat/history",
                "DELETE chat/session", "GET digest/config", "POST digest/config",
                "POST digest/trigger", "GET digest/history"} |->
        CASE route = "POST openclaw/start" -> 771
          [] route = "POST openclaw/stop" -> 837
          [] route = "GET openclaw/token" -> 878
          [] route = "POST chat/message" -> 1265
          [] route = "GET chat/sessions" -> 1314
          [] route = "GET chat/history" -> 1323
          [] route = "DELETE chat/session" -> 1332
          [] route = "GET digest/config" -> 2276
          [] route = "POST digest/config" -> 2285
          [] route = "POST digest/trigger" -> 2303
          [] route = "GET digest/history" -> 2312]

GuardedRoutes == DOMAIN RouteLine

IncludeRouterLine == 2115       \* app.include_router(api_router)

\* include_router copies the routes api_router has when it is called: a route
\* added to api_router further down the module is not served by the app.
Registered(route) == RouteLine[route] < IncludeRouterLine

\* What a request to a guarded route meets before its handler's own code: 404
\* when the app has no such route, the rejection of require_auth, or 0 when
\* the handler goes on.
Dispatch(route, c, cred) ==
    IF ~Registered(route) THEN 404 ELSE RequireAuth(c, cred)

\* A request to a guarded route up to the point where its handler goes on
\* (status 0); what the handlers of start, stop and token do from there is
\* followed in the other specifications.
Guarded(route, c, cred) ==
    Answered(route, c, cred,
             IF Dispatch(route, c, cred) = 0 THEN c ELSE NoUser,
             Dispatch(route, c, cred), NoTok, FALSE)

GuardedRequest(route, c, cred) ==
    /\ up /\ ReadFree
    /\ read' = Guarded(route, c, cred)
    /\ UNCHANGED <<up, now, nextTok, supRunning, gateway_state, durable,
                   instanceOwner, sessions, cfg, envFile, start, stop, reply,
                   holders, call, tasks, digestVars, ws>>

NextAccess ==
    \/ ProcExit
    \/ TimePasses
    \/ \E c \in Users, cred \in Creds : Logout(c, cred)
    \/ \E c \in Users, cred \in Creds : TokenAuth(c, cred)
    \/ TokenHandle
    \/ \E c \in Users, cred \in Creds : ProxyResolve(c, cred)
    \/ ProxyCheck
    \/ ProxyForward
    \/ \E c \in Users, cred \in Creds : WsAccept(c, cred)
    \/ WsRelay

SpecAccess == InitAccess /\ [][NextAccess]_vars

\* ------------------------------------------------------------ the readiness wait, poll by poll
\* start[c].polls counts the probes of start_gateway_process that did not
\* answer 200; each is followed by asyncio.sleep(1), so max_wait leaves room
\* for MaxPolls of them.

\* A sleep that takes no time.
SleptNoTime(polls) == polls

\* await asyncio.sleep(1): the loop's clock has moved on by one poll.
Slept(polls) == polls + 1

\* while asyncio.get_event_loop().time() - start_time < max_wait
WithinWait(c) == start[c].polls < MaxPolls

\* The probe answers 200 inside the window.
StartProbeReady(c) == WithinWait(c) /\ StartReady(c)

\* The probe fails, times out after 2 s or answers something else: the
\* exception is swallowed and the loop sleeps.
StartProbeFail(c) ==
    /\ up /\ start[c].pc = "wait"
    /\ WithinWait(c)
    /\ start' = [start EXCEPT ![c].polls = Slept(start[c].polls)]
    /\ Quiet
    /\ UNCHANGED <<up, now, nextTok, supRunning, gateway_state, durable,
                   instanceOwner, sessions, cfg, envFile, stop, holders, call, read, tasks, digestVars, ws>>

\* The loop condition fails: the start gives up with 500.
StartWindowOver(c) == ~WithinWait(c) /\ StartTimeout(c)

\* What start_moltbot does for client c after require_auth, one await at a time.
StartStep(c) ==
    \/ \E in \in StartInputs : StartInvalid(c, in[1], in[2])
    \/ \E in \in StartInputs : StartConflict(c, in[1], in[2])
    \/ \E in \in StartInputs : StartAdopt(c, in[1], in[2])
    \/ \E in \in StartInputs : StartNotInstalled(c, in[1], in[2])
    \/ \E in \in StartInputs, ok \in BOOLEAN : StartLaunch(c, in[1], in[2], ok)
    \/ StartProbeReady(c)
    \/ StartProbeFail(c)
    \/ StartWindowOver(c)
    \/ StartLock(c)

NextStart ==
    \/ ProcExit
    \/ \E c \in Users, cred \in Creds : StartAuth(c, cred)
    \/ \E c \in Users : StartStep(c)
    \/ \E c \in Users, cred \in Creds : StopAuth(c, cred)
    \/ \E c \in Users : StopIdle(c)
    \/ \E c \in Users : StopIdleReturn(c)
    \/ \E c \in Users : StopDenied(c)
    \/ \E c \in Users, ok \in BOOLEAN : StopSupervisor(c, ok)
    \/ \E c \in Users : StopFinish(c)

\* The event loop resumes a handler whose await has completed; whether a
\* probe is answered is up to the gateway.
SpecStart == InitAccess /\ [][NextStart]_vars /\ \A c \in Users : WF_vars(StartStep(c))

\* ------------------------------------------------------------ websocket_proxy, step by step
\* The handler and its two relay tasks share one event loop: each action below
\* is what one of them does between two awaits.
Loops == {"client_to_moltbot", "moltbot_to_client"}

OtherLoop(loop) == IF loop = "client_to_moltbot" THEN "moltbot_to_client" ELSE "client_to_moltbot"

WsFree == ws.pc \in {"idle", "done"}

\* accept, then check_gateway_running: close 1013 and return when the gateway
\* is not running, else go on to connect upstream.
WsProxyAccept ==
    /\ up /\ WsFree
    /\ ws' = IF ~CheckGatewayRunning
             THEN [NoWs EXCEPT !.pc = "done", !.client = "closed", !.code = 1013]
             ELSE [NoWs EXCEPT !.pc = "connecting", !.client = "connected"]
    /\ UNCHANGED <<up, now, nextTok, supRunning, gateway_state, durable,
                   instanceOwner, sessions, cfg, envFile, start, stop, reply,
                   holders, call, read, tasks, digestVars>>

\* websockets.connect: on success both relay tasks are created and the handler
\* waits for the first of them to finish; a failure is caught and the handler
\* goes to its finally block.
WsConnect(ok) ==
    /\ up /\ ws.pc = "connecting"
    /\ ok => supRunning
    /\ ws' = IF ok
             THEN [ws EXCEPT !.pc = "relaying", !.upstream = "open",
                             !.client_to_moltbot = "running",
                             !.moltbot_to_client = "running"]
             ELSE [ws EXCEPT !.pc = "closing"]
    /\ UNCHANGED <<up, now, nextTok, supRunning, gateway_state, durable,
                   instanceOwner, sessions, cfg, envFile, start, stop, reply,
                   holders, call, read, tasks, digestVars>>

\* The browser goes away.
ClientCloses ==
    /\ up /\ ws.client = "connected"
    /\ ws' = [ws EXCEPT !.client = "gone"]
    /\ UNCHANGED <<up, now, nextTok, supRunning, gateway_state, durable,
                   instanceOwner, sessions, cfg, envFile, start, stop, reply,
                   holders, call, read, tasks, digestVars>>

\* The gateway closes the connection, or its process is gone.
UpstreamCloses ==
    /\ up /\ ws.upstream = "open"
    /\ ws' = [ws EXCEPT !.upstream = "closed"]
    /\ UNCHANGED <<up, now, nextTok, supRunning, gateway_state, durable,
                   instanceOwner, sessions, cfg, envFile, start, stop, reply,
                   holders, call, read, tasks, digestVars>>

\* One turn of a relay loop: a frame received on one socket is sent on the other.
RelayFrame(loop) ==
    /\ up /\ ws[loop] = "running"
    /\ ws.client = "connected" /\ ws.upstream = "open"
    /\ ws' = [ws EXCEPT !.last = loop, !.late = (ws[OtherLoop(loop)] # "running")]
    /\ UNCHANGED <<up, now, nextTok, supRunning, gateway_state, durable,
                   instanceOwner, sessions, cfg, envFile, start, stop, reply,
                   holders, call, read, tasks, digestVars>>

\* A relay task returns: its receive reported the disconnect, its iteration
\* of the upstream ended, or an exception was caught and logged.
LoopEnds(loop) ==
    /\ up /\ ws[loop] = "running"
    /\ ws' = [ws EXCEPT ![loop] = "ended"]
    /\ UNCHANGED <<up, now, nextTok, supRunning, gateway_state, durable,
                   instanceOwner, sessions, cfg, envFile, start, stop, reply,
                   holders, call, read, tasks, digestVars>>

\* A handler that leaves the task still pending alone.
CancelPendingForgotten(task) == task

\* for task in pending: task.cancel()
CancelPending(task) == IF task = "running" THEN "cancelled" ELSE task

\* asyncio.wait(return_when=FIRST_COMPLETED) returns: the pending task is
\* cancelled and leaving the async with block closes the upstream connection.
WsFinish ==
    /\ up /\ ws.pc = "relaying"
    /\ \E loop \in Loops : ws[loop] = "ended"
    /\ ws' = [ws EXCEPT !.pc = "closing", !.upstream = "closed",
                        !.client_to_moltbot = CancelPending(ws.client_to_moltbot),
                        !.moltbot_to_client = CancelPending(ws.moltbot_to_client)]
    /\ UNCHANGED <<up, now, nextTok, supRunning, gateway_state, durable,
                   instanceOwner, sessions, cfg, envFile, start, stop, reply,
                   holders, call, read, tasks, digestVars>>

\* finally: close the client socket with 1011 if it is still connected.
WsCloseClient ==
    /\ up /\ ws.pc = "closing"
    /\ ws' = IF ws.client = "connected"
             THEN [ws EXCEPT !.pc = "done", !.client = "closed", !.code = 1011]
             ELSE [ws EXCEPT !.pc = "done"]
    /\ UNCHANGED <<up, now, nextTok, supRunning, gateway_state, durable,
                   instanceOwner, sessions, cfg, envFile, start, stop, reply,
                   holders, call, read, tasks, digestVars>>

InitWs == InitAccess /\ sessions = [c \in Users |-> NoSession]

NextWs ==
    \/ ProcExit
    \/ WsProxyAccept
    \/ \E ok \in BOOLEAN : WsConnect(ok)
    \/ ClientCloses
    \/ UpstreamCloses
    \/ \E loop \in Loops : RelayFrame(loop)
    \/ \E loop \in Loops : LoopEnds(loop)
    \/ WsFinish
    \/ WsCloseClient

\* The event loop runs every callback that is ready: the handler is resumed
\* once a relay task has finished, and again once the upstream is closed.
SpecWs == InitWs /\ [][NextWs]_vars /\ WF_vars(WsFinish) /\ WF_vars(WsCloseClient)

\* The guard alone, on every guarded route, while sessions run out and are
\* logged out.
NextRoutes ==
    \/ TimePasses
    \/ \E c \in Users, cred \in Creds : Logout(c, cred)
    \/ \E route \in GuardedRoutes, c \in Users, cred \in Creds :
           GuardedRequest(route, c, cred)

SpecRoutes == InitAccess /\ [][NextRoutes]_vars

\* ------------------------------------------------------------ digest
\* The minutes of a day the scheduler is followed through, <<hour, minute>>.
Instants == << <<8, 0>>, <<8, 1>>, <<9, 0>> >>

\* The send_time values save_digest_config lets through, and those a request
\* can carry: "08:00", "09:00", "24:00", "xx:00", "8".
StoredTimes == {<<Piece(8), Piece(0)>>, <<Piece(9), Piece(0)>>}
SendTimes ==
    StoredTimes \cup {<<Piece(24), Piece(0)>>, <<Junk, Piece(0)>>, <<Piece(8)>>}

\* h, m = map(int, send_time.split(":")) raises nothing.
ParsesHM(t) == Len(t) = 2 /\ \A i \in 1..2 : t[i].num

\* The validation of save_digest_config.
ValidSendTime(t) ==
    /\ ParsesHM(t)
    /\ 0 <= t[1].val /\ t[1].val <= 23
    /\ 0 <= t[2].val /\ t[2].val <= 59

DigestDoc(user_email, enabled, t) ==
    [present |-> TRUE, enabled |-> enabled, send_time |-> t, user_email |-> user_email]

\* db.digest_config.find_one({}): the first document of the collection.
FindOneConfig == IF digest_config = <<>> THEN NoDigestConfig ELSE digest_config[1]

\* update_one({"user_email": ...}, {"$set": ...}, upsert=True)
UpsertConfig(user_email, enabled, t) ==
    IF \E i \in DOMAIN digest_config : digest_config[i].user_email = user_email
    THEN [i \in DOMAIN digest_config |->
            IF digest_config[i].user_email = user_email
            THEN DigestDoc(user_email, enabled, t) ELSE digest_config[i]]
    ELSE Append(digest_config, DigestDoc(user_email, enabled, t))

\* What a run of the pipeline meets outside the process: whether the user has
\* chat messages in the last 24 hours, whether the LLM call returns a text or
\* raises, whether a Telegram id is paired, whether sendMessage answers 200.
\* What a run never gets to look at is left at its default.
Worlds ==
    {w \in [messages : BOOLEAN, llm : {"text", "raises"}, paired : BOOLEAN,
            delivered : BOOLEAN] :
        /\ ~w.messages => w.llm = "text"
        /\ (~w.messages \/ w.llm = "raises") => ~w.paired
        /\ ~w.paired => ~w.delivered}

\* generate_digest_summary: a text (TRUE) or None (FALSE).
GenerateDigestSummary(w) == w.messages /\ w.llm = "text"

\* sent of run_digest_for_user.
DigestSent(w) == IF w.paired THEN w.delivered ELSE FALSE

\* run_digest_for_user: the history it leaves and the value it returns.
RunDigestForUser(user_email, w) ==
    IF ~GenerateDigestSummary(w)
    THEN [history |-> digest_history, result |-> FALSE]
    ELSE [history |-> Append(digest_history,
                             [user_email |-> user_email,
                              telegram_sent |-> DigestSent(w)]),
          result |-> TRUE]

RunOf(user_email, w) ==
    [made |-> TRUE, user_email |-> user_email, messages |-> w.messages,
     summary |-> GenerateDigestSummary(w),
     sent |-> GenerateDigestSummary(w) /\ DigestSent(w),
     result |-> RunDigestForUser(user_email, w).result]

\* The configuration is there, enabled, and names the current hour and minute;
\* a send_time that does not parse raises into the except clause of the loop.
TimeMatches(config) ==
    /\ config.present /\ config.enabled
    /\ ParsesHM(config.send_time)
    /\ Instants[minute.at] = <<config.send_time[1].val, config.send_time[2].val>>

\* A scheduler that forgets the day it last fired on.
ShouldFireAnyDay(config) == TimeMatches(config)

\* The tests of one pass of the digest_scheduler loop.
ShouldFire(config) == TimeMatches(config) /\ last_sent_date # now

\* No request and no boot step: the part of the state the digest leaves alone.
DigestOnly ==
    UNCHANGED <<up, nextTok, supRunning, gateway_state, durable, instanceOwner,
                sessions, cfg, envFile, start, stop, holders, call, read, tasks, ws>>

\* The wall clock moves to the next minute followed, or to the next day.
Advance ==
    /\ up
    /\ IF minute.at < Len(Instants)
       THEN minute' = [at |-> minute.at + 1, ticked |-> FALSE, matched |-> FALSE]
            /\ UNCHANGED now
       ELSE /\ now < MaxDay
            /\ now' = now + 1
            /\ minute' = [at |-> 1, ticked |-> FALSE, matched |-> FALSE]
    /\ DigestOnly
    /\ UNCHANGED <<reply, digest_config, digest_history, last_sent_date, fired,
                   pipeline>>

\* One pass of the digest_scheduler loop after its sleep of 60 seconds: at
\* most one pass in a minute, and a minute may go by without one.
Tick(w) ==
    /\ up /\ tasks.scheduler /\ ~minute.ticked
    /\ minute' = [minute EXCEPT !.ticked = TRUE, !.matched = TimeMatches(FindOneConfig)]
    /\ LET config == FindOneConfig
           fire == ShouldFire(config)
           runs == fire /\ config.user_email # NoUser
       IN  /\ (runs /\ GenerateDigestSummary(w)) => Len(digest_history) < MaxHistory
           /\ last_sent_date' = IF fire THEN now ELSE last_sent_date
           /\ fired' = IF fire THEN [fired EXCEPT ![now] = @ \cup {minute.at}]
                       ELSE fired
           /\ digest_history' = IF runs THEN RunDigestForUser(config.user_email, w).history
                                ELSE digest_history
           /\ pipeline' = IF runs THEN RunOf(config.user_email, w) ELSE pipeline
    /\ DigestOnly
    /\ UNCHANGED <<now, reply, digest_config>>

\* A document of db.digest_config written as save_digest_config writes it, by
\* a writer of the database other than this process.
DigestConfigStored(u, enabled, t) ==
    /\ up
    /\ digest_config' = UpsertConfig(Email(u), enabled, t)
    /\ DigestOnly
    /\ UNCHANGED <<now, reply, digest_history, last_sent_date, minute, fired,
                   pipeline>>

DigestDetail(status) == IF status = 404 THEN "not found" ELSE AuthDetail(status)

\* POST /api/digest/config
SaveDigestConfig(c, cred, enabled, t) ==
    /\ up
    /\ LET status == Dispatch("POST digest/config", c, cred)
       IN  IF status # 0
           THEN /\ reply' = Response("digest/config", status, DigestDetail(status))
                /\ UNCHANGED digest_config
           ELSE IF ~ValidSendTime(t)
           THEN /\ reply' = Response("digest/config", 400, "invalid")
                /\ UNCHANGED digest_config
           ELSE /\ reply' = Response("digest/config", 200, "ok true")
                /\ digest_config' = UpsertConfig(Email(c), enabled, t)
    /\ DigestOnly
    /\ UNCHANGED <<now, digest_history, last_sent_date, minute, fired, pipeline>>

\* POST /api/digest/trigger
TriggerDigestNow(c, cred, w) ==
    /\ up
    /\ LET status == Dispatch("POST digest/trigger", c, cred)
           run == RunDigestForUser(Email(c), w)
       IN  IF status # 0
           THEN /\ reply' = Response("digest/trigger", status, DigestDetail(status))
                /\ UNCHANGED <<digest_history, pipeline>>
           ELSE /\ run.result => Len(digest_history) < MaxHistory
                /\ reply' = Response("digest/trigger", 200,
                                     IF run.result THEN "ok true" ELSE "ok false")
                /\ digest_history' = run.history
                /\ pipeline' = RunOf(Email(c), w)
    /\ DigestOnly
    /\ UNCHANGED <<now, digest_config, last_sent_date, minute, fired>>

\* The control plane booted with nothing to reconcile, every identity signed
\* in, no digest configured.
InitDigest ==
    /\ up = TRUE
    /\ now = 0
    /\ nextTok = 1
    /\ supRunning = FALSE
    /\ gateway_state = EmptyState
    /\ durable = NoDurable
    /\ instanceOwner = NoOwner
    /\ sessions = [u \in Users |-> DayZeroSession]
    /\ cfg = NoFile
    /\ envFile = NoEnv
    /\ start = [c \in Users |-> IdleStart]
    /\ stop = [c \in Users |-> IdleStop]
    /\ reply = NoResponse
    /\ holders = {}
    /\ call = NoCall
    /\ read = NoRead
    /\ tasks = TasksStarted
    /\ ws = NoWs
    /\ DigestIdle

NextDigest ==
    \/ Advance
    \/ \E w \in Worlds : Tick(w)
    \/ \E u \in Users, enabled \in BOOLEAN, t \in StoredTimes :
          DigestConfigStored(u, enabled, t)
    \/ \E c \in Users, cred \in Creds, enabled \in BOOLEAN, t \in SendTimes :
          SaveDigestConfig(c, cred, enabled, t)
    \/ \E c \in Users, cred \in Creds, w \in Worlds : TriggerDigestNow(c, cred, w)

SpecDigest == InitDigest /\ [][NextDigest]_vars


\* ------------------------------------------------------------ request steps
\* The segment of start_moltbot that follows require_auth, for one request body.
HandledStart(c, provider, api_key) ==
    \/ StartInvalid(c, provider, api_key)
    \/ StartConflict(c, provider, api_key)
    \/ StartAdopt(c, provider, api_key)
    \/ StartNotInstalled(c, provider, api_key)
    \/ \E ok \in BOOLEAN : StartLaunch(c, provider, api_key, ok)

\* The segment of stop_moltbot that follows require_auth.
HandledStop(c) ==
    \/ StopIdle(c)
    \/ StopDenied(c)
    \/ \E ok \in BOOLEAN : StopSupervisor(c, ok)

\* ------------------------------------------------------------ C1
\* C1: under every interleaving of the start requests of two users, with the
\* gateway process free to exit at any time, it never happens that both users
\* have been answered 200 by start with no successful stop in between.
SingleWriter == Cardinality(holders) <= 1

\* ------------------------------------------------------------ C2
\* C2 as stated: whenever the supervisor reports running and the in-memory
\* owner is not the requester, the start request is answered 403 conflict and
\* changes neither gateway_state, the durable record, the config file nor the
\* InstanceOwnerRecord.
ConflictAlways403 ==
    [][\A c \in Users, in \in StartInputs :
          (/\ supRunning
           /\ gateway_state.owner_user_id # c
           /\ HandledStart(c, in[1], in[2]))
          => /\ reply' = Response("start", 403, "conflict")
             /\ UNCHANGED <<gateway_state, durable, cfg, instanceOwner>>]_vars

\* C2 amended: a start request whose provider and key pass validation is
\* answered 403 conflict whenever the supervisor reports running and the
\* in-memory owner is not the requester, and the rejected request changes
\* neither gateway_state, the durable record, the config file nor the
\* InstanceOwnerRecord.
ValidConflict403 ==
    [][\A c \in Users, in \in StartInputs :
          (/\ supRunning
           /\ gateway_state.owner_user_id # c
           /\ ValidStart(in[1], in[2])
           /\ HandledStart(c, in[1], in[2]))
          => /\ reply' = Response("start", 403, "conflict")
             /\ UNCHANGED <<gateway_state, durable, cfg, instanceOwner>>]_vars

\* A valid start request has just been turned away by the ownership check.
ConflictRejected ==
    /\ reply = Response("start", 403, "conflict")
    /\ supRunning
    /\ gateway_state.owner_user_id \in Users

OwnerRecordImmutable ==
    [][instanceOwner.present => instanceOwner' = instanceOwner]_vars

\* The owner has stopped the gateway and the lock is still there.
LockSurvivesStop ==
    /\ instanceOwner.present
    /\ reply = Response("stop", 200, "stopped")
    /\ gateway_state = EmptyState

\* ------------------------------------------------------------ C7
\* C7: while the supervisor reports running, the stop request of a user who is
\* not the in-memory owner is answered 403 and leaves the supervisor, the
\* durable record, the hand-off file and gateway_state as they were.
NonOwnerStopDenied ==
    [][\A c \in Users :
          (/\ supRunning
           /\ gateway_state.owner_user_id # c
           /\ HandledStop(c))
          => /\ reply' = Response("stop", 403, "only owner")
             /\ UNCHANGED <<supRunning, durable, envFile, gateway_state>>]_vars

\* A running gateway owned by a user has just refused somebody else's stop.
StopRefused ==
    /\ reply = Response("stop", 403, "only owner")
    /\ supRunning
    /\ gateway_state.owner_user_id \in Users
    /\ envFile.present

\* ------------------------------------------------------------ C8
\* C8: after every stop that is answered 200 the durable should_run is false,
\* the hand-off file is cleared and gateway_state is all-absent.
StopClearsAll ==
    (reply.op = "stop" /\ reply.status = 200)
    => /\ ~ShouldRun
       /\ envFile = NoEnv
       /\ gateway_state = EmptyState

\* ------------------------------------------------------------ C9
\* C9: a stop handled while the supervisor reports not running takes the
\* branch that never calls the supervisor's stop (supervisor, hand-off file
\* and gateway_state untouched), leaves should_run false or the record
\* absent, and is answered 200; every repetition does the same.
IdleStopIdempotent ==
    [][\A c \in Users :
          /\ (~supRunning /\ HandledStop(c))
             => /\ stop'[c].pc = "idle_ret"
                /\ ~ShouldRun'
                /\ durable.present = durable'.present
                /\ UNCHANGED <<supRunning, envFile, gateway_state>>
          /\ (stop[c].pc = "idle_ret" /\ stop'[c].pc # "idle_ret" /\ up')
             => reply' = Response("stop", 200, "not running")]_vars

\* A stop of an already stopped gateway with a durable record has been answered.
IdleStopAnswered ==
    /\ reply = Response("stop", 200, "not running")
    /\ ~supRunning
    /\ durable.present /\ ~durable.should_run

\* ------------------------------------------------------------ C10
\* C10 as stated: when the owner's stop reaches the supervisor and the
\* supervisor's stop fails, the durable should_run flag is set to false, the
\* request is still answered 200 and gateway_state is cleared.
FailedStopSetsFlag ==
    [][\A c \in Users :
          /\ (stop[c].pc = "authed" /\ stop'[c].pc = "fail_ret")
             => (durable'.present /\ ~durable'.should_run)
          /\ (stop[c].pc = "fail_ret" /\ stop'[c].pc # "fail_ret" /\ up')
             => /\ reply' = Response("stop", 200, "stopped, supervisor stop failed")
                /\ gateway_state' = EmptyState]_vars

\* C10 amended: when the owner's stop reaches the supervisor and the
\* supervisor's stop fails, the durable should_run flag is set to false if the
\* durable record exists (an absent record stays absent), the request is still
\* answered 200 and gateway_state is cleared.
FailedStopStillClears ==
    [][\A c \in Users :
          /\ (stop[c].pc = "authed" /\ stop'[c].pc = "fail_ret")
             => /\ durable.present => (durable'.present /\ ~durable'.should_run)
                /\ ~durable.present => ~durable'.present
          /\ (stop[c].pc = "fail_ret" /\ stop'[c].pc # "fail_ret" /\ up')
             => /\ reply' = Response("stop", 200, "stopped, supervisor stop failed")
                /\ gateway_state' = EmptyState]_vars

\* The supervisor's stop failed, the process lingers, and the stop was answered.
FailedStopAnswered ==
    /\ reply = Response("stop", 200, "stopped, supervisor stop failed")
    /\ supRunning
    /\ gateway_state = EmptyState
    /\ durable.present /\ ~durable.should_run

\* ------------------------------------------------------------ C5
\* C5: once the file on disk holds a token, every create_moltbot_config call
\* with force_new_token = false returns that token and leaves it in the file;
\* the token in the file changes only in a call with force_new_token = true.
TokenKeptUnlessForced ==
    (call.made /\ Truthy(FileToken(call.before)))
    => /\ ~call.force => /\ call.result = FileToken(call.before)
                         /\ FileToken(cfg) = FileToken(call.before)
       /\ FileToken(cfg) # FileToken(call.before) => call.force

\* A token generated by an earlier call is returned by a later call that was
\* handed another token.
EstablishedTokenReturned ==
    /\ call.made /\ ~call.force
    /\ FileToken(call.before) = 1
    /\ call.token = CallerTok
    /\ call.result = 1 /\ FileToken(cfg) = 1

\* ------------------------------------------------------------ C6
\* C6: the token create_moltbot_config returns is, with force_new_token = true,
\* a newly generated one whatever the file and the caller supply; otherwise
\* the token of the file if present, else the caller's, else a newly
\* generated one.
ResolutionOrder ==
    call.made =>
        call.result =
            IF call.force THEN call.fresh
            ELSE IF Truthy(FileToken(call.before)) THEN FileToken(call.before)
            ELSE IF Truthy(call.token) THEN call.token
            ELSE call.fresh

\* ------------------------------------------------------------ C11
\* C11: the durable record is written with should_run = true only by a start
\* whose readiness probe has just been answered 200; no path of a start
\* request, the already-running path included, persists should_run = true
\* without it.
ShouldRunOnlyAfterReady ==
    [][(durable' # durable /\ durable'.should_run)
       => \E c \in Users : StartReady(c)]_vars

\* ------------------------------------------------------------ C12
\* C12: when the readiness window runs out the start is answered with an
\* error, the supervisor is not stopped, neither the durable record nor the
\* InstanceOwnerRecord is written, and gateway_state does not keep the owner,
\* token, provider or started_at of the failed attempt.
TimeoutReverts ==
    [][\A c \in Users :
          StartTimeout(c)
          => /\ reply' = Response("start", 500, "not ready")
             /\ UNCHANGED <<supRunning, durable, instanceOwner>>
             /\ gateway_state'.owner_user_id # c
             /\ gateway_state'.token # start[c].token]_vars

\* ------------------------------------------------------------ C13
\* C13: a boot that finds the supervisor not running and the durable record
\* absent or with should_run = false never starts the gateway: the supervisor
\* and the hand-off file are left alone, no token is generated and
\* gateway_state is all-absent when the control plane starts serving.
NoAutoStartWithoutIntent ==
    [][(/\ ~up /\ up'
        /\ ~(durable.present /\ durable.should_run))
       => /\ supRunning' = supRunning
          /\ UNCHANGED <<envFile, nextTok, durable>>
          /\ ~supRunning => gateway_state' = EmptyState]_vars

\* The control plane serves again over a record that says "do not run".
BootedStopped ==
    /\ up
    /\ reply = Response("boot", 0, "stopped")
    /\ ~supRunning
    /\ durable.present /\ ~durable.should_run
    /\ gateway_state = EmptyState
    /\ envFile = NoEnv
    /\ \A c \in Users : start[c] = IdleStart /\ stop[c] = IdleStop

\* ------------------------------------------------------------ C14
\* C14: a boot that finds should_run = true and the supervisor not running
\* writes the hand-off file and calls the supervisor's start once; it ends
\* either running, with the owner, provider and started_at of the durable
\* record in gateway_state, or stopped with gateway_state all-absent, and in
\* both cases the control plane starts serving.
AutoStartStep ==
    [][(/\ ~up
        /\ ~supRunning
        /\ durable.present /\ durable.should_run
        /\ vars' # vars)
       => /\ up'
          /\ envFile'.present /\ envFile'.provider = durable.provider
          /\ durable' = durable
          /\ \/ /\ supRunning'
                /\ gateway_state'.owner_user_id = durable.owner_user_id
                /\ gateway_state'.provider = durable.provider
                /\ gateway_state'.started_at = durable.started_at
                /\ gateway_state'.token = envFile'.token
             \/ /\ ~supRunning'
                /\ gateway_state' = EmptyState]_vars

AutoStartConverges ==
    /\ AutoStartStep
    /\ (~up /\ ~supRunning /\ durable.present /\ durable.should_run) ~> up

\* The gateway was brought back by the boot for the owner the record names.
AutoStarted ==
    /\ up /\ supRunning
    /\ reply = Response("boot", 0, "auto-started")
    /\ durable.present /\ durable.should_run
    /\ gateway_state.owner_user_id = durable.owner_user_id
    /\ gateway_state.owner_user_id \in Users
    /\ envFile.present /\ envFile.api_key = NoKey
    /\ \A c \in Users : start[c] = IdleStart /\ stop[c] = IdleStop

\* ------------------------------------------------------------ C17
\* C17: GET /auth/instance answers locked = false until a start request is
\* answered 200 and locked = true from then on; the body has no field but
\* `locked`.  No other step (failed or rejected start, stop, login, boot)
\* changes the answer.
StartSucceeded == Response("start", 200, "started")

ProxyAlways403 ==
    [][(read.op = "ui" /\ read.pc = "resolved" /\ read' # read)
       => /\ read'.pc = "forward"
               => /\ CheckGatewayRunning
                  /\ read.user \in Users
                  /\ read.user = gateway_state.owner_user_id
          /\ (read.user = NoUser \/ read.user # gateway_state.owner_user_id)
               => read'.pc = "done" /\ read'.status = 403 /\ ~read'.relayed]_vars

\* C18, amended: as above, but the refusal is 403 only while the gateway is
\* reported running; when it is not, every requester is answered 503.  The
\* gateway receives a request only from a handler that passed the gate.
ProxyGated ==
    [][/\ (read.op = "ui" /\ read.pc = "resolved" /\ read' # read)
          => /\ read'.pc = "forward"
                  => /\ CheckGatewayRunning
                     /\ read.user \in Users
                     /\ read.user = gateway_state.owner_user_id
             /\ (read.user = NoUser \/ read.user # gateway_state.owner_user_id)
                  => /\ read'.pc = "done" /\ ~read'.relayed
                     /\ read'.status = IF CheckGatewayRunning THEN 403 ELSE 503
       /\ (read'.op = "ui" /\ read'.relayed /\ read' # read)
          => read.op = "ui" /\ read.pc = "forward" /\ supRunning]_vars

\* The owner's request was passed on to the gateway.
UiForwarded ==
    /\ read.op = "ui" /\ read.pc = "done" /\ read.relayed
    /\ read.user = gateway_state.owner_user_id
    /\ read.user \in Users

\* ------------------------------------------------------------ C19
\* C19: the WebSocket proxy opens the upstream connection and relays frames
\* only for a requester whose credential resolves to the in-memory owner.
WsGated ==
    [][(read.op = "ws" /\ read'.op = "ws" /\ read'.relayed /\ ~read.relayed)
       => /\ GetCurrentUser(read.client, read.cred) \in Users
          /\ GetCurrentUser(read.client, read.cred) = gateway_state.owner_user_id]_vars

\* ------------------------------------------------------------ C20
\* C20: the token endpoint returns the token only while the supervisor
\* reports the gateway running and only to the in-memory owner; a request
\* that passed require_auth is answered 404 when the gateway is not running,
\* every other authenticated user is answered 403 while it is running, and no
\* answer but the 200 carries the token.
TokenOnlyToOwner ==
    [][(read'.op = "token" /\ read'.pc = "done" /\ read' # read)
       => /\ read'.status = 200
               => /\ CheckGatewayRunning
                  /\ read'.client = gateway_state.owner_user_id
                  /\ read'.token = gateway_state.token
          /\ read'.status # 200 => read'.token = NoTok
          /\ (read.pc = "authed" /\ ~CheckGatewayRunning) => read'.status = 404
          /\ (/\ CheckGatewayRunning
              /\ read'.client # gateway_state.owner_user_id
              /\ (read.pc = "authed" \/ GetCurrentUser(read'.client, read'.cred) # NoUser))
               => read'.status = 403]_vars

\* The owner was handed the token of the running gateway.
TokenDisclosed ==
    /\ read.op = "token" /\ read.status = 200
    /\ read.token = Launched.token
    /\ read.client = gateway_state.owner_user_id
    /\ supRunning

\* ------------------------------------------------------------ C15
Expired(c) == sessions[c].present /\ sessions[c].expires_at < now

Presented == Creds \ {"none"}

\* What a request is answered and leaves behind, whatever carried the
\* credential.
Blind(r) == [r EXCEPT !.cred = "none"]

\* C15 as stated: a request carrying the credential of an expired session is
\* resolved, answered and leaves the state exactly as the same request
\* carrying no credential, on every endpoint (logout included), and no step
\* deletes the expired session row.
ExpiredIsAbsentEverywhere ==
    /\ [](\A c \in Users, cred \in Presented :
             Expired(c) => /\ GetCurrentUser(c, cred) = GetCurrentUser(c, "none")
                           /\ RequireAuth(c, cred) = RequireAuth(c, "none"))
    /\ [][\A c \in Users, cred \in Presented :
             Expired(c) =>
                 /\ TokenAuth(c, cred) => Blind(read') = Blind(TokenAuthed(c, "none"))
                 /\ ProxyResolve(c, cred) => Blind(read') = Blind(ProxyResolved(c, "none"))
                 /\ WsAccept(c, cred) => Blind(read') = Blind(WsAccepted(c, "none"))
                 /\ Logout(c, cred) <=> Logout(c, "none")
                 /\ sessions'[c] = sessions[c]]_vars

\* C15, amended: as above on every endpoint but logout; the expired row is
\* deleted by no step other than a logout that presents it as the cookie.
ExpiredIsAbsent ==
    /\ [](\A c \in Users, cred \in Presented :
             Expired(c) => /\ GetCurrentUser(c, cred) = GetCurrentUser(c, "none")
                           /\ RequireAuth(c, cred) = RequireAuth(c, "none"))
    /\ [][\A c \in Users, cred \in Presented :
             Expired(c) =>
                 /\ TokenAuth(c, cred) => Blind(read') = Blind(TokenAuthed(c, "none"))
                 /\ ProxyResolve(c, cred) => Blind(read') = Blind(ProxyResolved(c, "none"))
                 /\ WsAccept(c, cred) => Blind(read') = Blind(WsAccepted(c, "none"))
                 /\ sessions'[c] # sessions[c] => Logout(c, "cookie")]_vars

\* The owner's session has run out and the token endpoint has sent them away
\* as it would a stranger; the session row is still there.
ExpiredTurnedAway ==
    /\ read.op = "token" /\ read.status = 401
    /\ read.cred \in Presented
    /\ read.client \in Users
    /\ Expired(read.client)
    /\ instanceOwner.user_id = read.client

LogoutInvalidates ==
    [][\A c \in Users, cred \in Presented :
          (GetCurrentUser(c, cred) = c /\ Logout(c, cred))
          => GetCurrentUser(c, cred)' = NoUser]_vars

\* ------------------------------------------------------------ C28
\* C28: when the stop of the in-memory owner is answered 200, a start of that
\* user would not meet the ownership conflict, whatever the supervisor reports
\* then.
OwnerReacquires ==
    [][\A c \in Users :
          (StopFinish(c) /\ reply'.status = 200) => ~OwnerConflict(c)']_vars

\* ------------------------------------------------------------ C29
\* C29: a boot that finds the supervisor reporting the process running leaves
\* the process, the hand-off file, the config file and the durable record as
\* they are; afterwards gateway_state holds the token of the config file and
\* the owner, provider and started_at of the durable record.
AdoptKeepsProcess ==
    [][(~up /\ up' /\ supRunning)
       => /\ supRunning'
          /\ UNCHANGED <<envFile, cfg, durable, nextTok>>
          /\ gateway_state'.token = FileToken(cfg)
          /\ durable.present
               => /\ gateway_state'.owner_user_id = durable.owner_user_id
                  /\ gateway_state'.provider = durable.provider
                  /\ gateway_state'.started_at = durable.started_at]_vars

\* The control plane came back over a running gateway and holds its owner and
\* the token on disk again.
Adopted ==
    /\ reply = Response("boot", 0, "adopted")
    /\ supRunning
    /\ gateway_state.owner_user_id \in Users
    /\ gateway_state.owner_user_id = durable.owner_user_id
    /\ gateway_state.token = cfg.token
    /\ Truthy(gateway_state.token)

\* ------------------------------------------------------------ C30
\* C30: a boot that finds a durable record with should_run = false ends with
\* the in-memory owner and token absent, also when the supervisor reports the
\* process running.
BootStopsWithoutIntent ==
    [][(~up /\ up' /\ durable.present /\ ~durable.should_run)
       => /\ gateway_state'.owner_user_id = NoUser
          /\ gateway_state'.token = NoTok]_vars

\* ------------------------------------------------------------ C23
\* C23: when the shutdown handler has finished, neither the health-watcher
\* loop nor the digest scheduler loop is still scheduled.
LoopsEndWithShutdown == ~up => (~tasks.watcher /\ ~tasks.scheduler)

\* ------------------------------------------------------------ C21
\* C21: a request to any route guarded by require_auth that carries no
\* session, an unknown token or an expired session is answered 401, and
\* nothing but the answer changes.
Unauthenticated401 ==
    [][\A c \in Users, cred \in Creds :
          GetCurrentUser(c, cred) = NoUser
          => \A route \in GuardedRoutes :
                 GuardedRequest(route, c, cred)
                 => /\ read'.pc = "done" /\ read'.status = 401
                    /\ UNCHANGED <<sessions, instanceOwner, durable, gateway_state,
                                   supRunning, cfg, envFile, digestVars, ws>>]_vars

\* C24: within one run of the control plane the scheduler fires on at most one
\* minute of a UTC day, whatever ticks happen and however the digest
\* configuration is rewritten between them, and it fires on no tick that finds
\* the configuration absent or disabled.
FiresOncePerDay ==
    [][/\ \A d \in 0..MaxDay : Cardinality(fired'[d]) <= 1
       /\ fired' # fired => (FindOneConfig.present /\ FindOneConfig.enabled)]_vars

\* The scheduler fired at 08:00, and its tick at 09:00 found the configuration
\* enabled for 09:00 and did not fire again.
SecondMatchSuppressed ==
    /\ fired[now] = {1}
    /\ minute = [at |-> 3, ticked |-> TRUE, matched |-> TRUE]

\* C26: whenever the pipeline runs for a user who has messages in the last 24
\* hours, exactly one history record is appended, and its telegram_sent is the
\* outcome of the delivery (false when nobody is paired or the send failed).
OneRecordPerRun ==
    [][\A w \in Worlds :
          (w.messages /\ ShouldFire(FindOneConfig) /\ Tick(w))
          => /\ Len(digest_history') = Len(digest_history) + 1
             /\ digest_history'[Len(digest_history')] =
                    [user_email |-> FindOneConfig.user_email,
                     telegram_sent |-> DigestSent(w)]]_vars

\* C25: a manual trigger by a signed-in user who has no chat message in the
\* last 24 hours answers ok = false and appends no history record.
EmptyTriggerNotSent ==
    [][\A c \in Users, cred \in Creds, w \in Worlds :
          (RequireAuth(c, cred) = 0 /\ ~w.messages /\ TriggerDigestNow(c, cred, w))
          => /\ reply' = Response("digest/trigger", 200, "ok false")
             /\ UNCHANGED digest_history]_vars

\* C22: a digest configuration save by a signed-in user whose send_time is
\* malformed or out of range answers 400 and writes no digest configuration.
BadSendTimeRejected ==
    [][\A c \in Users, cred \in Creds, enabled \in BOOLEAN, t \in SendTimes :
          (RequireAuth(c, cred) = 0 /\ ~ValidSendTime(t)
             /\ SaveDigestConfig(c, cred, enabled, t))
          => /\ reply'.status = 400
             /\ UNCHANGED digest_config]_vars

\* C36: whenever the durable record says should_run and gateway_state names an
\* owner, it is the owner of the durable record.
MemoryMirrorsRecord ==
    (durable.present /\ durable.should_run /\ gateway_state.owner_user_id # NoUser)
    => gateway_state.owner_user_id = durable.owner_user_id

\* C37: whenever the instance owner record exists, the owner in gateway_state
\* is absent or is the user of that record.
OwnerNeverLockedOut ==
    instanceOwner.present
    => gateway_state.owner_user_id \in {NoUser, instanceOwner.user_id}

\* C38: while the control plane serves and the supervisor reports the gateway
\* running, gateway_state names an owner.
RunningHasOwner ==
    (up /\ supRunning) => gateway_state.owner_user_id # NoUser

\* C40: a token held in gateway_state, and the token of the durable record when
\* there is one, is the token stored in the config file, through every
\* sequence of starts, stops and boots.
TokensAgreeWithFile ==
    /\ Truthy(gateway_state.token) => gateway_state.token = FileToken(cfg)
    /\ (durable.present /\ Truthy(durable.token)) => durable.token = FileToken(cfg)

\* The control plane restarted and started the gateway again: memory, record
\* and file hold the token minted by the first start.
TokenSurvivedRestart ==
    /\ reply = Response("boot", 0, "auto-started")
    /\ nextTok = 2
    /\ gateway_state.token = 1 /\ durable.token = 1 /\ FileToken(cfg) = 1

\* C39: in the state a stop answered 200 leaves behind, a start request that
\* was waiting for readiness while that stop completed does not go on to write
\* should_run = true into the durable record.
NoLateReady ==
    [][\A c \in Users :
          (reply.op = "stop" /\ reply.status = 200 /\ start[c].pc = "wait"
             /\ StartReady(c))
          => ~(durable'.present /\ durable'.should_run)]_vars

\* C34: create_moltbot_config leaves the workspace path stored in a readable
\* config file, its channels section and every provider entry registered under
\* a name other than its own as they were before the call.
UnrelatedKeysKept ==
    (call.made /\ call.before.status = "ok")
    => /\ call.before.workspace # "none" => cfg.workspace = call.before.workspace
       /\ cfg.channels = call.before.channels
       /\ \A n \in (DOMAIN call.before.providers) \ OwnProviderNames :
             n \in DOMAIN cfg.providers /\ cfg.providers[n] = call.before.providers[n]

\* C35: on a missing or unparsable config file create_moltbot_config writes a
\* complete new file from an empty base and returns the caller's token when
\* one was given, a generated one otherwise.
FailsOpen ==
    (call.made /\ call.before.status # "ok")
    => /\ cfg.status = "ok"
       /\ cfg.workspace = WORKSPACE_DIR /\ cfg.channels = {}
       /\ DOMAIN cfg.providers \subseteq OwnProviderNames
       /\ FileToken(cfg) = call.result
       /\ call.result = IF Truthy(call.token) THEN call.token ELSE call.fresh

\* A call on a truncated file, handed a token, wrote a new file with it.
RebuiltFromBroken ==
    /\ call.made
    /\ call.before = [NoFile EXCEPT !.status = "corrupt", !.token = OldTok]
    /\ call.token = CallerTok /\ call.result = CallerTok
    /\ cfg.status = "ok" /\ FileToken(cfg) = CallerTok

\* C33: when the supervisor reports the gateway not running, the HTTP proxy
\* answers 503 and the WebSocket proxy, having accepted the socket, closes it
\* with 1013; neither goes on to connect to the gateway.
NotRunningNoConnection ==
    [][/\ (read.op = "ui" /\ read.pc = "resolved" /\ ~CheckGatewayRunning
             /\ read' # read)
          => read' = Answered("ui", read.client, read.cred, read.user, 503,
                              NoTok, FALSE)
       /\ (read.op = "ws" /\ read.pc = "accepted" /\ ~CheckGatewayRunning
             /\ read' # read)
          => read' = Answered("ws", read.client, read.cred, read.user, 1013,
                              NoTok, FALSE)]_vars

\* The in-memory owner of a gateway that has exited asked for the UI and got
\* the unavailable page.
OwnerToldUnavailable ==
    /\ ~supRunning
    /\ read.op = "ui" /\ read.pc = "done" /\ read.status = 503 /\ ~read.relayed
    /\ read.user \in Users /\ read.user = gateway_state.owner_user_id

EveryStartReturns ==
    /\ [](\A c \in Users : start[c].polls <= MaxPolls)
    /\ \A c \in Users :
          (start[c].pc # "idle") ~>
              (/\ start[c].pc = "idle"
               /\ reply.op = "start"
               /\ reply.status = 200 \/ reply.status >= 400)

\* C31 happens: a start used up its whole window on a gateway that was
\* running and never answered, and returned 500.
GaveUpAfterLastPoll ==
    /\ reply = Response("start", 500, "not ready")
    /\ supRunning
    /\ \E c \in Users : gateway_state.owner_user_id = c /\ start[c] = IdleStart

====
